---- MODULE Spec2Model ----
(***************************************************************************)
(* Model of the Smart Email Assistant (src/email_assistant.py):            *)
(*   - categorize_email  : rule-based classification of one email record   *)
(*   - _extract_body     : plain-text selection from a MIME payload tree   *)
(*   - get_attachments   : attachment enumeration (_scan)                  *)
(*   - send_templated_email : parsing of a rendered template               *)
(*   - authenticate      : the OAuth token lifecycle (token.pickle)         *)
(* Python str values are TLA+ strings for the classifier and the template  *)
(* parser; the text decoded from base64 is a sequence of code points.      *)
(* A dict is a function whose DOMAIN is the set of keys that are present.  *)
(***************************************************************************)
EXTENDS Integers, Sequences, FiniteSets, TLC

VARIABLES pc, email, category, payload, body, msg, attachments, rendered, sent,
          rule_set, config,
          creds_file, token_file, creds, service, user_email, returned,
          issued, calls, rejected

vars == <<pc, email, category, payload, body, msg, attachments, rendered, sent,
         rule_set, config,
         creds_file, token_file, creds, service, user_email, returned,
         issued, calls, rejected>>

(***************************************************************************)
(* Python primitives                                                       *)
(***************************************************************************)

\* dict.get(key, default)
get(d, key, default) == IF key \in DOMAIN d THEN d[key] ELSE default

\* the empty dict {}
EmptyDict == [k \in {} |-> ""]

\* s[i] of a str, as a one-character str (1-based)
Ch(s, i) == SubSeq(s, i, i)

UpperChars == "ABCDEFGHIJKLMNOPQRSTUVWXYZ"
LowerChars == "abcdefghijklmnopqrstuvwxyz"

\* the lowercase letter of each uppercase letter
LowerOf == [c \in {Ch(UpperChars, i) : i \in 1..Len(UpperChars)} |->
              Ch(LowerChars, CHOOSE i \in 1..Len(UpperChars) : Ch(UpperChars, i) = c)]

\* str.lower() of one character
LowerCh(c) == IF c \in DOMAIN LowerOf THEN LowerOf[c] ELSE c

RECURSIVE lower(_)
\* str.lower()
lower(s) == IF Len(s) = 0 THEN "" ELSE LowerCh(Ch(s, 1)) \o lower(SubSeq(s, 2, Len(s)))

\* the operator `k in s` on two str values
contains(s, k) == \E i \in 1..(Len(s) - Len(k) + 1) : SubSeq(s, i, i + Len(k) - 1) = k

\* str.startswith
startswith(s, p) == Len(s) >= Len(p) /\ SubSeq(s, 1, Len(p)) = p

(***************************************************************************)
(* re.search for the pattern syntax the rule table uses: literal           *)
(* characters, the escapes \d \s \b, and the postfix quantifiers ? + *.    *)
(***************************************************************************)

Digits == {"0", "1", "2", "3", "4", "5", "6", "7", "8", "9"}
Whitespace == {" ", "\t", "\n", "\r"}
Quantifiers == {"?", "+", "*"}

\* the characters \w matches: letters, digits and the underscore
WordChars ==
    Digits \cup {"_"} \cup {Ch(LowerChars, i) : i \in 1..Len(LowerChars)}
           \cup {Ch(UpperChars, i) : i \in 1..Len(UpperChars)}

IsWordCh(c) == c \in WordChars

\* length of the atom starting at p[k]: an escape is two characters
AtomLen(p, k) == IF Ch(p, k) = "\\" THEN 2 ELSE 1

\* the quantifier that follows the atom at p[k], "1" when there is none
Quant(p, k) ==
    LET j == k + AtomLen(p, k)
    IN  IF j <= Len(p) /\ Ch(p, j) \in Quantifiers THEN Ch(p, j) ELSE "1"

\* index of the atom after the one at p[k]
NextAtom(p, k) == k + AtomLen(p, k) + (IF Quant(p, k) = "1" THEN 0 ELSE 1)

\* the atom at p[k] is the zero-width assertion \b
IsBoundaryAtom(p, k) == Ch(p, k) = "\\" /\ k < Len(p) /\ Ch(p, k + 1) = "b"

\* the atom at p[k] consumes character c
AtomMatches(p, k, c) ==
    IF Ch(p, k) = "\\"
    THEN CASE Ch(p, k + 1) = "d" -> c \in Digits
           [] Ch(p, k + 1) = "s" -> c \in Whitespace
           [] OTHER -> c = Ch(p, k + 1)
    ELSE c = Ch(p, k)

\* \b at position i of s: exactly one of s[i-1], s[i] is a word character
AtBoundary(s, i) ==
    LET before == i > 1 /\ IsWordCh(Ch(s, i - 1))
        after  == i <= Len(s) /\ IsWordCh(Ch(s, i))
    IN  before # after

RECURSIVE MatchHere(_, _, _, _)
\* the atoms of p from index k on match s starting at position i
MatchHere(p, k, s, i) ==
    IF k > Len(p) THEN TRUE
    ELSE IF IsBoundaryAtom(p, k)
         THEN AtBoundary(s, i) /\ MatchHere(p, k + 2, s, i)
    ELSE LET hit == i <= Len(s) /\ AtomMatches(p, k, Ch(s, i))
             q   == Quant(p, k)
             nxt == NextAtom(p, k)
         IN  CASE q = "1" -> hit /\ MatchHere(p, nxt, s, i + 1)
               [] q = "?" -> (hit /\ MatchHere(p, nxt, s, i + 1)) \/ MatchHere(p, nxt, s, i)
               [] q = "*" -> (hit /\ MatchHere(p, k, s, i + 1)) \/ MatchHere(p, nxt, s, i)
               [] q = "+" -> hit /\ (MatchHere(p, k, s, i + 1) \/ MatchHere(p, nxt, s, i + 1))

\* re.compile fails (re.error): nothing to repeat, a multiple repeat (a
\* quantifier followed by *; a following ? is the lazy form and a following +
\* the possessive form), or a pattern ending in a lone backslash
re_error(p) ==
    \/ Len(p) > 0 /\ Ch(p, 1) \in Quantifiers
    \/ \E k \in 1..Len(p) : k < Len(p) /\ Ch(p, k) \in Quantifiers /\ Ch(p, k + 1) = "*"
                            /\ (k = 1 \/ Ch(p, k - 1) # "\\")
    \/ Len(p) > 0 /\ Ch(p, Len(p)) = "\\" /\ (Len(p) = 1 \/ Ch(p, Len(p) - 1) # "\\")

\* bool(re.search(p, s)): the pattern matches somewhere in s
re_search(p, s) == \E i \in 1..(Len(s) + 1) : MatchHere(p, 1, s, i)

(***************************************************************************)
(* Outcome of a call: a returned value, or the exception that escaped it   *)
(***************************************************************************)

Return(v) == [exc |-> "", value |-> v]
Raise(e) == [exc |-> e, value |-> ""]
Pending == [exc |-> "pending", value |-> ""]

(***************************************************************************)
(* Categorise                                                              *)
(***************************************************************************)

\* the rule table with a promotion pattern that does not compile
CATEGORIES_BadPattern ==
    << [name |-> "work",
        rules |-> [keywords |-> <<"meeting", "project", "deadline", "invoice", "urgent">>,
                   from_domains |-> <<"company.com", "work.com", "enterprise.com">>,
                   label |-> "Work"]],
       [name |-> "personal",
        rules |-> [keywords |-> <<"family", "friend", "birthday", "dinner", "vacation">>,
                   label |-> "Personal"]],
       [name |-> "newsletter",
        rules |-> [keywords |-> <<"unsubscribe", "newsletter", "weekly digest">>,
                   subject_patterns |-> <<"newsletter", "digest", "updates?">>,
                   label |-> "Newsletters"]],
       [name |-> "promotion",
        rules |-> [keywords |-> <<"sale", "discount", "offer", "deal", "promo">>,
                   subject_patterns |-> <<"+%\\s*off", "\\bsale\\b", "\\bdiscount\\b">>,
                   label |-> "Promotions"]],
       [name |-> "important",
        rules |-> [keywords |-> <<"important", "critical", "action required", "asap">>,
                   label |-> "Important"]] >>

\* Email category rules, in insertion order
CATEGORIES ==
    << [name |-> "work",
        rules |-> [keywords |-> <<"meeting", "project", "deadline", "invoice", "urgent">>,
                   from_domains |-> <<"company.com", "work.com", "enterprise.com">>,
                   label |-> "Work"]],
       [name |-> "personal",
        rules |-> [keywords |-> <<"family", "friend", "birthday", "dinner", "vacation">>,
                   label |-> "Personal"]],
       [name |-> "newsletter",
        rules |-> [keywords |-> <<"unsubscribe", "newsletter", "weekly digest">>,
                   subject_patterns |-> <<"newsletter", "digest", "updates?">>,
                   label |-> "Newsletters"]],
       [name |-> "promotion",
        rules |-> [keywords |-> <<"sale", "discount", "offer", "deal", "promo">>,
                   subject_patterns |-> <<"\\d+%\\s*off", "\\bsale\\b", "\\bdiscount\\b">>,
                   label |-> "Promotions"]],
       [name |-> "important",
        rules |-> [keywords |-> <<"important", "critical", "action required", "asap">>,
                   label |-> "Important"]] >>

\* any(kw in full_text for kw in rules.get("keywords", []))
KeywordHit(rules, full_text) ==
    LET kws == get(rules, "keywords", <<>>)
    IN  \E i \in 1..Len(kws) : contains(full_text, kws[i])

\* a domain check that counts a category without from_domains as a hit
DomainHitAbsentTrue(rules, sender) ==
    \/ "from_domains" \notin DOMAIN rules
    \/ \E i \in 1..Len(rules.from_domains) : contains(sender, rules.from_domains[i])

\* any(d in sender for d in rules.get("from_domains", []))
DomainHit(rules, sender) ==
    LET ds == get(rules, "from_domains", <<>>)
    IN  \E i \in 1..Len(ds) : contains(sender, ds[i])

RECURSIVE PatternScan(_, _, _)
\* any(re.search(p, subject) for p in patterns), evaluated left to right from
\* index k: "hit", "miss", or "error" when a pattern that is reached does
\* not compile
PatternScan(ps, k, subject) ==
    IF k > Len(ps) THEN "miss"
    ELSE IF re_error(ps[k]) THEN "error"
    ELSE IF re_search(ps[k], subject) THEN "hit"
    ELSE PatternScan(ps, k + 1, subject)

RECURSIVE CategoryLoop(_, _, _, _, _)
\* the loop `for category, rules in items` from index k, and the final return
CategoryLoop(items, k, full_text, sender, subject) ==
    IF k > Len(items) THEN Return("uncategorized")
    ELSE LET category_ == items[k].name
             rules == items[k].rules
         IN  IF KeywordHit(rules, full_text) THEN Return(category_)
             ELSE IF DomainHit(rules, sender) THEN Return(category_)
             ELSE LET r == PatternScan(get(rules, "subject_patterns", <<>>), 1, subject)
                  IN  IF r = "error" THEN Raise("re.error")
                      ELSE IF r = "hit" THEN Return(category_)
                      ELSE CategoryLoop(items, k + 1, full_text, sender, subject)

\* a text that always carries the snippet along with the body
BodyAndSnippet(e) == get(e, "body", "") \o " " \o get(e, "snippet", "")

\* email.get("body", "") or email.get("snippet", "")
BodyOrSnippet(e) ==
    IF get(e, "body", "") # "" THEN get(e, "body", "") ELSE get(e, "snippet", "")

\* f"{subject} {sender} {body_text}"
FullText(e) ==
    lower(get(e, "subject", "")) \o " " \o lower(get(e, "from", "")) \o " " \o lower(BodyOrSnippet(e))

\* a classifier that walks the categories in sorted-name order
categorize_email_sorted(e) ==
    LET byName == <<CATEGORIES[5], CATEGORIES[3], CATEGORIES[2], CATEGORIES[4], CATEGORIES[1]>>
    IN  CategoryLoop(byName, 1, FullText(e), lower(get(e, "from", "")), lower(get(e, "subject", "")))

\* EmailAssistant.categorize_email
categorize_email(e) ==
    CategoryLoop(CATEGORIES, 1, FullText(e), lower(get(e, "from", "")), lower(get(e, "subject", "")))

(***************************************************************************)
(* Email records handed to categorize_email                                *)
(***************************************************************************)

\* most words of a subject line
MaxWords == 2

SubjectWords == {"Meeting", "Digest", "50%", "OFF", "Updated", "wholesale"}

RECURSIVE Phrases(_)
\* the texts of at most n words, separated by single spaces
Phrases(n) ==
    IF n = 0 THEN {""}
    ELSE Phrases(n - 1) \cup SubjectWords
         \cup {ph \o " " \o w : ph \in Phrases(n - 1) \ {""}, w \in SubjectWords}

Senders == {"Bob <bob@Company.com>", "ann@gmail.com", "ideal@shop.org"}
Bodies == {"", "Happy Birthday!", "see you"}
Snippets == {"ASAP please"}

\* an optional dict entry: opt is {} (key absent) or {v}
Field(key, opt) == [k \in {key} \cap {key : x \in opt} |-> CHOOSE x \in opt : TRUE]

Optional(S) == {{}} \cup {{x} : x \in S}

\* the email records whose subject has at most w words
Emails(w) ==
    { Field("subject", s) @@ Field("from", f) @@ Field("body", b) @@ Field("snippet", n) :
        s \in Optional(Phrases(w)), f \in Optional(Senders),
        b \in Optional(Bodies), n \in Optional(Snippets) }

(***************************************************************************)
(* Specification of the classifier: one email, one call                    *)
(***************************************************************************)

Idle == "idle"

\* the state of authenticate: the two files, the local creds, the two
\* attributes it assigns, its outcome, and the bookkeeping of the calls
authvars == <<creds_file, token_file, creds, service, user_email, returned,
              issued, calls, rejected>>

\* no authenticate call is part of the behaviour
AuthIdle ==
    /\ creds_file = Idle /\ token_file = Idle /\ creds = Idle /\ service = Idle
    /\ user_email = Idle /\ returned = Idle
    /\ issued = Idle /\ calls = Idle /\ rejected = Idle

InitClassify ==
    /\ pc = "start"
    /\ email \in Emails(MaxWords)
    /\ category = Pending
    /\ payload = Idle /\ body = Idle /\ msg = Idle /\ attachments = Idle
    /\ rendered = Idle /\ sent = Idle
    /\ rule_set = Idle /\ config = Idle
    /\ AuthIdle

Categorize ==
    /\ pc = "start"
    /\ category' = categorize_email(email)
    /\ pc' = "done"
    /\ UNCHANGED <<email, payload, body, msg, attachments, rendered, sent, rule_set, config,
                   authvars>>

SpecClassify == InitClassify /\ [][Categorize]_vars

(***************************************************************************)
(* Specification of the classifier over a configured rule table: the       *)
(* module-level CATEGORIES dict is whatever the configuration wrote into   *)
(* it; the module is imported, the assistant constructed, one email        *)
(* classified.                                                             *)
(***************************************************************************)

\* the rule table with the subject_patterns of its k-th category set to ps
WithPatterns(items, k, ps) == [items EXCEPT ![k].rules.subject_patterns = ps]

\* rule tables a configuration can hold: the shipped one, and the shipped one
\* with a pattern that does not compile
\*   - first in the promotion list (nothing to repeat)
\*   - last in the newsletter list (multiple repeat)
\*   - last in the promotion list (nothing to repeat)
RuleSets ==
    { CATEGORIES,
      WithPatterns(CATEGORIES, 4, <<"+%\\s*off", "\\bsale\\b", "\\bdiscount\\b">>),
      WithPatterns(CATEGORIES, 3, <<"newsletter", "digest", "updates?*">>),
      WithPatterns(CATEGORIES, 4, <<"\\d+%\\s*off", "\\bsale\\b", "*discount">>) }

\* EmailAssistant.categorize_email reading the table `items` from the module
\* global
categorize_email_with(items, e) ==
    CategoryLoop(items, 1, FullText(e), lower(get(e, "from", "")), lower(get(e, "subject", "")))

InitRules ==
    /\ pc = "import"
    /\ rule_set \in RuleSets
    /\ email \in Emails(MaxWords)
    /\ config = Pending
    /\ category = Pending
    /\ payload = Idle /\ body = Idle /\ msg = Idle /\ attachments = Idle
    /\ rendered = Idle /\ sent = Idle
    /\ AuthIdle

\* the module is imported (CATEGORIES is bound to a dict literal whose
\* patterns are plain strings) and EmailAssistant() is constructed: no
\* pattern is compiled, nothing can raise
Construct ==
    /\ pc = "import"
    /\ config' = Return("constructed")
    /\ pc' = "start"
    /\ UNCHANGED <<email, category, payload, body, msg, attachments, rendered, sent, rule_set,
                   authvars>>

\* categorize_email(email) on the constructed assistant
CategorizeConfigured ==
    /\ pc = "start"
    /\ category' = categorize_email_with(rule_set, email)
    /\ pc' = "done"
    /\ UNCHANGED <<email, payload, body, msg, attachments, rendered, sent, rule_set, config,
                   authvars>>

NextRules == Construct \/ CategorizeConfigured

SpecRules == InitRules /\ [][NextRules]_vars

(***************************************************************************)
(* decode: base64.urlsafe_b64decode(data + "==").decode("utf-8",           *)
(* errors="replace"), "" on any exception.  Bytes are 0..255; the decoded  *)
(* text is the sequence of its code points, <<>> being the empty str.      *)
(***************************************************************************)

B64Alphabet == "ABCDEFGHIJKLMNOPQRSTUVWXYZabcdefghijklmnopqrstuvwxyz0123456789+/"

\* the 6-bit value of each base64 character; urlsafe_b64decode first
\* translates "-" to "+" and "_" to "/"
B64Value ==
    [c \in {Ch(B64Alphabet, i) : i \in 1..Len(B64Alphabet)} \cup {"-", "_"} |->
        IF c = "-" THEN 62
        ELSE IF c = "_" THEN 63
        ELSE (CHOOSE i \in 1..Len(B64Alphabet) : Ch(B64Alphabet, i) = c) - 1]

RECURSIVE a2b_base64(_, _, _, _, _, _)
\* binascii.a2b_base64 (not strict) from character i on: quad_pos is the
\* position in the current group of four, leftchar the bits not yet written,
\* pads the count of "=" seen since the last data character, out the bytes
\* so far.  ok = FALSE is binascii.Error.
a2b_base64(s, i, quad_pos, leftchar, pads, out) ==
    IF i > Len(s) THEN [ok |-> quad_pos = 0, bytes |-> out]
    ELSE LET c == Ch(s, i)
         IN  IF c = "="
             THEN IF quad_pos >= 2 /\ quad_pos + pads + 1 >= 4
                  THEN [ok |-> TRUE, bytes |-> out]
                  ELSE a2b_base64(s, i + 1, quad_pos, leftchar,
                                  IF quad_pos >= 2 THEN pads + 1 ELSE pads, out)
             ELSE IF c \notin DOMAIN B64Value
             THEN a2b_base64(s, i + 1, quad_pos, leftchar, pads, out)
             ELSE LET v == B64Value[c]
                  IN  CASE quad_pos = 0 -> a2b_base64(s, i + 1, 1, v, 0, out)
                        [] quad_pos = 1 ->
                             a2b_base64(s, i + 1, 2, v % 16, 0,
                                        Append(out, (leftchar * 4 + (v \div 16)) % 256))
                        [] quad_pos = 2 ->
                             a2b_base64(s, i + 1, 3, v % 4, 0,
                                        Append(out, (leftchar * 16 + (v \div 4)) % 256))
                        [] quad_pos = 3 ->
                             a2b_base64(s, i + 1, 0, 0, 0,
                                        Append(out, (leftchar * 64 + v) % 256))

\* the replacement character U+FFFD
REPLACEMENT == 65533

\* a UTF-8 continuation byte within lo..hi follows at index j
Cont(bytes, j, lo, hi) == j <= Len(bytes) /\ bytes[j] >= lo /\ bytes[j] <= hi

RECURSIVE utf8_decode(_, _)
\* bytes.decode("utf-8", errors="replace") from index i on: every ill-formed
\* sequence (its longest well-formed prefix) becomes one U+FFFD
utf8_decode(bytes, i) ==
    IF i > Len(bytes) THEN <<>>
    ELSE LET b == bytes[i]
             \* the range allowed for the second byte after lead byte b
             lo2 == IF b = 224 THEN 160 ELSE IF b = 240 THEN 144 ELSE 128
             hi2 == IF b = 237 THEN 159 ELSE IF b = 244 THEN 143 ELSE 191
         IN  IF b < 128 THEN <<b>> \o utf8_decode(bytes, i + 1)
             ELSE IF b >= 194 /\ b <= 223
             THEN IF Cont(bytes, i + 1, 128, 191)
                  THEN <<(b % 32) * 64 + (bytes[i + 1] % 64)>> \o utf8_decode(bytes, i + 2)
                  ELSE <<REPLACEMENT>> \o utf8_decode(bytes, i + 1)
             ELSE IF b >= 224 /\ b <= 239
             THEN IF ~Cont(bytes, i + 1, lo2, hi2)
                  THEN <<REPLACEMENT>> \o utf8_decode(bytes, i + 1)
                  ELSE IF ~Cont(bytes, i + 2, 128, 191)
                  THEN <<REPLACEMENT>> \o utf8_decode(bytes, i + 2)
                  ELSE <<(b % 16) * 4096 + (bytes[i + 1] % 64) * 64 + (bytes[i + 2] % 64)>>
                       \o utf8_decode(bytes, i + 3)
             ELSE IF b >= 240 /\ b <= 244
             THEN IF ~Cont(bytes, i + 1, lo2, hi2)
                  THEN <<REPLACEMENT>> \o utf8_decode(bytes, i + 1)
                  ELSE IF ~Cont(bytes, i + 2, 128, 191)
                  THEN <<REPLACEMENT>> \o utf8_decode(bytes, i + 2)
                  ELSE IF ~Cont(bytes, i + 3, 128, 191)
                  THEN <<REPLACEMENT>> \o utf8_decode(bytes, i + 3)
                  ELSE <<(b % 8) * 262144 + (bytes[i + 1] % 64) * 4096
                         + (bytes[i + 2] % 64) * 64 + (bytes[i + 3] % 64)>>
                       \o utf8_decode(bytes, i + 4)
             ELSE <<REPLACEMENT>> \o utf8_decode(bytes, i + 1)

\* _extract_body.decode
decode(data) ==
    LET r == a2b_base64(data \o "==", 1, 0, 0, 0, <<>>)
    IN  IF r.ok THEN utf8_decode(r.bytes, 1) ELSE <<>>

(***************************************************************************)
(* _extract_body                                                           *)
(***************************************************************************)

\* the None that part.get("mimeType") gives for an absent key
None == "<None>"

\* part.get("body", {}).get("data", "")
BodyData(part) == get(get(part, "body", EmptyDict), "data", "")

RECURSIVE FirstText(_, _)
\* a first loop that takes the first text part of either kind
FirstText(parts, k) ==
    IF k > Len(parts) THEN ""
    ELSE IF get(parts[k], "mimeType", None) \in {"text/plain", "text/html"} /\ BodyData(parts[k]) # ""
    THEN BodyData(parts[k])
    ELSE FirstText(parts, k + 1)

RECURSIVE FirstPlain(_, _)
\* first loop over payload["parts"], from index k: the data of the first
\* text/plain part with non-empty data, "" when the loop ends without one
FirstPlain(parts, k) ==
    IF k > Len(parts) THEN ""
    ELSE IF get(parts[k], "mimeType", None) = "text/plain" /\ BodyData(parts[k]) # ""
    THEN BodyData(parts[k])
    ELSE FirstPlain(parts, k + 1)

RECURSIVE HtmlOnly(_, _)
\* a second loop that does not descend into nested parts
HtmlOnly(parts, k) ==
    IF k > Len(parts) THEN [found |-> FALSE, value |-> <<>>]
    ELSE IF get(parts[k], "mimeType", None) = "text/html" /\ BodyData(parts[k]) # ""
    THEN [found |-> TRUE, value |-> decode(BodyData(parts[k]))]
    ELSE HtmlOnly(parts, k + 1)

RECURSIVE extract_body(_), NestedOrHtml(_, _)
\* second loop over payload["parts"], from index k: found is TRUE when the
\* loop returns, with the returned text in value
NestedOrHtml(parts, k) ==
    IF k > Len(parts) THEN [found |-> FALSE, value |-> <<>>]
    ELSE LET part == parts[k]
             result == extract_body(part)
         IN  IF "parts" \in DOMAIN part /\ result # <<>>
             THEN [found |-> TRUE, value |-> result]
             ELSE IF get(part, "mimeType", None) = "text/html" /\ BodyData(part) # ""
             THEN [found |-> TRUE, value |-> decode(BodyData(part))]
             ELSE NestedOrHtml(parts, k + 1)

\* EmailAssistant._extract_body
extract_body(p) ==
    LET own == IF BodyData(p) # "" THEN decode(BodyData(p)) ELSE <<>>
    IN  IF "parts" \in DOMAIN p
        THEN IF FirstPlain(p.parts, 1) # ""
             THEN decode(FirstPlain(p.parts, 1))
             ELSE LET r == NestedOrHtml(p.parts, 1)
                  IN  IF r.found THEN r.value ELSE own
        ELSE own

(***************************************************************************)
(* MIME payloads handed to _extract_body                                   *)
(***************************************************************************)

\* most parts (at all depths) below the payload
MaxBodyParts == 3

\* parts without a "parts" key:
\*   text/plain with data "hi", with data that decodes to U+00E9, with data
\*   base64 cannot decode, and with empty data; text/html with data "<b>"
\*   and without a body; an attachment part without data
BodyLeaves ==
    { [mimeType |-> "text/plain", body |-> [size |-> 2, data |-> "aGk"]],
      [mimeType |-> "text/plain", body |-> [size |-> 2, data |-> "w6k"]],
      [mimeType |-> "text/plain", body |-> [size |-> 1, data |-> "A"]],
      [mimeType |-> "text/plain", body |-> [size |-> 0, data |-> ""]],
      [mimeType |-> "text/html", body |-> [size |-> 3, data |-> "PGI-"]],
      [mimeType |-> "text/html"],
      [mimeType |-> "image/png", filename |-> "a.png", body |-> [attachmentId |-> "att1", size |-> 9]] }

\* what a node with a "parts" key carries besides its parts: a multipart
\* node without body data, and one with body data "own"
BodyContainers ==
    { [mimeType |-> "multipart/alternative", body |-> [size |-> 0]],
      [mimeType |-> "multipart/mixed", body |-> [size |-> 3, data |-> "b3du"]] }

RECURSIVE BodyForests(_), BodyTrees(_)
\* the part lists with exactly n nodes in all
BodyForests(n) ==
    IF n = 0 THEN {<<>>}
    ELSE UNION { {<<t>> \o f : t \in BodyTrees(k), f \in BodyForests(n - k)} : k \in 1..n }

\* the parts with exactly n nodes, the part itself included
BodyTrees(n) ==
    (IF n = 1 THEN BodyLeaves ELSE {})
    \cup {c @@ ("parts" :> f) : c \in BodyContainers, f \in BodyForests(n - 1)}

\* the payloads with at most n parts below them
Payloads(n) ==
    BodyLeaves
    \cup UNION { {c @@ ("parts" :> f) : c \in BodyContainers, f \in BodyForests(k)} : k \in 0..n }

(***************************************************************************)
(* Specification of body extraction: one payload, one call                 *)
(***************************************************************************)

InitBody ==
    /\ pc = "start"
    /\ payload \in Payloads(MaxBodyParts)
    /\ body = Pending
    /\ email = Idle /\ category = Idle /\ msg = Idle /\ attachments = Idle
    /\ rendered = Idle /\ sent = Idle
    /\ rule_set = Idle /\ config = Idle
    /\ AuthIdle

ExtractBody ==
    /\ pc = "start"
    /\ body' = Return(extract_body(payload))
    /\ pc' = "done"
    /\ UNCHANGED <<email, category, payload, msg, attachments, rendered, sent, rule_set, config,
                   authvars>>

SpecBody == InitBody /\ [][ExtractBody]_vars

(***************************************************************************)
(* get_attachments                                                         *)
(***************************************************************************)

\* the descriptor appended for a part with a filename and a body
Descriptor(part) ==
    [filename     |-> part.filename,
     mimeType     |-> get(part, "mimeType", ""),
     attachmentId |-> get(part.body, "attachmentId", None),
     size         |-> get(part.body, "size", 0)]

RECURSIVE scan(_, _, _)
\* _scan(parts) from index k on, attachments being the list so far: the
\* list after the call, or the exception that escapes it
scan(parts, k, attachments_) ==
    IF k > Len(parts) THEN Return(attachments_)
    ELSE LET part == parts[k]
             named == get(part, "filename", "") # ""
         IN  IF named /\ "body" \notin DOMAIN part
             THEN Raise("KeyError")
             ELSE LET here == IF named THEN Append(attachments_, Descriptor(part))
                                       ELSE attachments_
                      below == IF "parts" \in DOMAIN part
                               THEN scan(part.parts, 1, here)
                               ELSE Return(here)
                  IN  IF below.exc # "" THEN below
                      ELSE scan(parts, k + 1, below.value)

\* EmailAssistant.get_attachments; response is what
\* messages().get(...).execute() returned or raised
get_attachments(response) ==
    IF response.exc = "HttpError" THEN Return(<<>>)
    ELSE IF "parts" \in DOMAIN get(response.value, "payload", EmptyDict)
    THEN scan(response.value.payload.parts, 1, <<>>)
    ELSE Return(<<>>)

(***************************************************************************)
(* Messages handed to get_attachments                                      *)
(***************************************************************************)

\* most parts (at all depths) below the payload
MaxAttParts == 3

\* parts without a "parts" key: a text part (empty filename), two
\* attachments with id and size, an attachment whose body has neither, an
\* attachment without a body, and a part with no filename key
AttLeaves ==
    { [mimeType |-> "text/plain", filename |-> "", body |-> [size |-> 2, data |-> "aGk"]],
      [mimeType |-> "image/png", filename |-> "a.png", body |-> [attachmentId |-> "att1", size |-> 9]],
      [mimeType |-> "application/pdf", filename |-> "report.pdf", body |-> [attachmentId |-> "att2", size |-> 7]],
      [filename |-> "notes.txt", body |-> EmptyDict],
      [filename |-> "report.pdf"],
      [mimeType |-> "text/html"] }

\* what a node with a "parts" key carries besides its parts: a multipart
\* node, and a forwarded message that is itself a named attachment
AttContainers ==
    { [mimeType |-> "multipart/mixed", filename |-> "", body |-> [size |-> 0]],
      [mimeType |-> "message/rfc822", filename |-> "fwd.eml", body |-> [attachmentId |-> "att3", size |-> 5]] }

RECURSIVE AttForests(_), AttTrees(_)
\* the part lists with exactly n nodes in all
AttForests(n) ==
    IF n = 0 THEN {<<>>}
    ELSE UNION { {<<t>> \o f : t \in AttTrees(k), f \in AttForests(n - k)} : k \in 1..n }

\* the parts with exactly n nodes, the part itself included
AttTrees(n) ==
    (IF n = 1 THEN AttLeaves ELSE {})
    \cup {c @@ ("parts" :> f) : c \in AttContainers, f \in AttForests(n - 1)}

\* the responses of messages().get: an HttpError, a message without a
\* payload, a message whose payload has no parts, and the messages whose
\* payload has at most n parts below it
Responses(n) ==
    {Raise("HttpError"), Return([id |-> "m1"])}
    \cup {Return([id |-> "m1", payload |-> p]) : p \in AttLeaves}
    \cup UNION { {Return([id |-> "m1", payload |-> c @@ ("parts" :> f)]) :
                    c \in AttContainers, f \in AttForests(k)} : k \in 0..n }

(***************************************************************************)
(* Specification of attachment listing: one response, one call             *)
(***************************************************************************)

InitAttach ==
    /\ pc = "start"
    /\ msg \in Responses(MaxAttParts)
    /\ attachments = Pending
    /\ email = Idle /\ category = Idle /\ payload = Idle /\ body = Idle
    /\ rendered = Idle /\ sent = Idle
    /\ rule_set = Idle /\ config = Idle
    /\ AuthIdle

GetAttachments ==
    /\ pc = "start"
    /\ attachments' = get_attachments(msg)
    /\ pc' = "done"
    /\ UNCHANGED <<email, category, payload, body, msg, rendered, sent, rule_set, config,
                   authvars>>

SpecAttach == InitAttach /\ [][GetAttachments]_vars

(***************************************************************************)
(* send_templated_email: parsing of the rendered template                  *)
(***************************************************************************)

RECURSIVE lstrip(_), rstrip(_)
\* str.lstrip()
lstrip(s) ==
    IF Len(s) > 0 /\ Ch(s, 1) \in Whitespace THEN lstrip(SubSeq(s, 2, Len(s))) ELSE s

\* str.rstrip()
rstrip(s) ==
    IF Len(s) > 0 /\ Ch(s, Len(s)) \in Whitespace THEN rstrip(SubSeq(s, 1, Len(s) - 1)) ELSE s

\* str.strip()
strip(s) == lstrip(rstrip(s))

RECURSIVE splitlines(_, _, _)
\* str.splitlines() of s from character i on, start being the index where
\* the current line began: lines end at "\n", "\r" or "\r\n", and a line
\* break at the very end opens no further line
splitlines(s, i, start) ==
    IF i > Len(s)
    THEN IF start > Len(s) THEN <<>> ELSE <<SubSeq(s, start, Len(s))>>
    ELSE IF Ch(s, i) = "\r" /\ i < Len(s) /\ Ch(s, i + 1) = "\n"
    THEN <<SubSeq(s, start, i - 1)>> \o splitlines(s, i + 2, i + 2)
    ELSE IF Ch(s, i) \in {"\n", "\r"}
    THEN <<SubSeq(s, start, i - 1)>> \o splitlines(s, i + 1, i + 1)
    ELSE splitlines(s, i + 1, start)

RECURSIVE join(_, _)
\* sep.join(lines)
join(sep, lines) ==
    IF Len(lines) = 0 THEN ""
    ELSE IF Len(lines) = 1 THEN lines[1]
    ELSE lines[1] \o sep \o join(sep, Tail(lines))

RECURSIVE ParseLines(_, _, _, _, _)
\* the loop `for line in lines` from index k on, with the values of subject,
\* body_lines and in_body before that iteration
ParseLines(lines, k, subject, body_lines, in_body) ==
    IF k > Len(lines) THEN [subject |-> subject, body_lines |-> body_lines]
    ELSE LET line == lines[k]
         IN  IF ~in_body /\ startswith(lower(line), "subject:")
             THEN ParseLines(lines, k + 1, strip(SubSeq(line, Len("subject:") + 1, Len(line))),
                             body_lines, in_body)
             ELSE IF subject # "" /\ ~in_body /\ strip(line) = ""
             THEN ParseLines(lines, k + 1, subject, body_lines, TRUE)
             ELSE IF in_body
             THEN ParseLines(lines, k + 1, subject, Append(body_lines, line), in_body)
             ELSE ParseLines(lines, k + 1, subject, body_lines, in_body)

\* EmailAssistant.send_templated_email, given the text Template.render
\* returned: the arguments of its call of send_email
send_templated_email(to, text) ==
    LET lines == splitlines(strip(text), 1, 1)
        r == ParseLines(lines, 1, "", <<>>, FALSE)
        body_ == strip(join("\n", r.body_lines))
    IN  [to |-> to, subject |-> r.subject, body |-> body_,
         html |-> startswith(lstrip(body_), "<")]

(***************************************************************************)
(* Rendered templates handed to send_templated_email                       *)
(***************************************************************************)

\* most lines of a rendered template
MaxLines == 4

TemplateLines ==
    {"Subject: Hi", "SUBJECT: Re: plan ", " subject: Fwd", "subject:", "", "  ", "Dear Bob,", "<p>Hi</p>"}

RECURSIVE LineSeqs(_)
\* the sequences of at most n template lines
LineSeqs(n) ==
    IF n = 0 THEN {<<>>}
    ELSE LineSeqs(n - 1) \cup {Append(ls, l) : ls \in LineSeqs(n - 1), l \in TemplateLines}

\* the rendered templates of at most n lines, each line ending with a newline
Rendered(n) == {join("", [k \in 1..Len(ls) |-> ls[k] \o "\n"]) : ls \in LineSeqs(n)}

(***************************************************************************)
(* Specification of the templated send: one rendered text, one call        *)
(***************************************************************************)

InitTemplate ==
    /\ pc = "start"
    /\ rendered \in Rendered(MaxLines)
    /\ sent = Pending
    /\ email = Idle /\ category = Idle /\ payload = Idle /\ body = Idle
    /\ msg = Idle /\ attachments = Idle
    /\ rule_set = Idle /\ config = Idle
    /\ AuthIdle

SendTemplated ==
    /\ pc = "start"
    /\ sent' = Return(send_templated_email("bob@example.com", rendered))
    /\ pc' = "done"
    /\ UNCHANGED <<email, category, payload, body, msg, attachments, rendered, rule_set, config,
                   authvars>>

SpecTemplate == InitTemplate /\ [][SendTemplated]_vars

(***************************************************************************)
(* authenticate: the token lifecycle.  A Credentials object is the record  *)
(* of the attributes authenticate reads (expired, valid, refresh_token)    *)
(* and an id that tells one access token from another.  A file is the set  *)
(* of its contents: {} when it does not exist, {x} when it holds x; the    *)
(* local creds and self.service are {} for None.  issued counts the access *)
(* tokens handed out so far, calls the authenticate calls; rejected is a   *)
(* history of the ids of the tokens whose refresh raised RefreshError.     *)
(***************************************************************************)

\* most authenticate calls in one behaviour
MaxCalls == 2

\* what pickle.load cannot read
Corrupt == [pickle |-> "corrupt"]

\* a refresh token as Google issues it
RefreshTokenValue == "1//r"

\* the credentials a token file can hold before the first call: valid;
\* expired; neither expired nor valid (no access token); each with and
\* without a refresh token
StoredCredentials ==
    { [id |-> 0, expired |-> e, valid |-> v, refresh_token |-> r] :
        e \in BOOLEAN, v \in BOOLEAN, r \in {None, RefreshTokenValue} } \
    { c \in [id : {0}, expired : {TRUE}, valid : {TRUE}, refresh_token : {None, RefreshTokenValue}] : TRUE }

TokenFiles == {{}} \cup {{Corrupt}} \cup {{c} : c \in StoredCredentials}

\* _delete_token: the file is removed when it exists
delete_token(file) == {}

\* a save that leaves the file as it was
save_token_skipped(file, c) == file

\* _save_token: the file is (re)written with the pickled creds
save_token(file, c) == {c}

\* _load_token: None when the file is missing; None, and the file deleted,
\* when it cannot be unpickled; the stored object otherwise
load_token(file) ==
    IF file = {} THEN [creds |-> {}, file |-> file]
    ELSE IF file = {Corrupt} THEN [creds |-> {}, file |-> delete_token(file)]
    ELSE [creds |-> file, file |-> file]

\* creds.refresh(Request()) succeeding: a new access token, no longer expired
refresh(c, new) == [c EXCEPT !.id = new, !.expired = FALSE, !.valid = TRUE]

\* the credentials flow.run_local_server returns
run_local_server(new) ==
    [id |-> new, expired |-> FALSE, valid |-> TRUE, refresh_token |-> RefreshTokenValue]

\* build("gmail", "v1", credentials=c)
build(c) == [credentials |-> c]

InitAuth ==
    /\ pc = "authenticate"
    /\ creds_file \in BOOLEAN
    /\ token_file \in TokenFiles
    /\ creds = {}
    /\ service = {}
    /\ user_email = ""
    /\ returned = Pending
    /\ issued = 0
    /\ calls = 1
    /\ rejected = {}
    /\ email = Idle /\ category = Idle /\ payload = Idle /\ body = Idle
    /\ msg = Idle /\ attachments = Idle /\ rendered = Idle /\ sent = Idle
    /\ rule_set = Idle /\ config = Idle

classifiervars == <<email, category, payload, body, msg, attachments, rendered, sent,
                    rule_set, config>>

\* if not os.path.exists(self.credentials_path): ... return False
CheckCredentials ==
    /\ pc = "authenticate"
    /\ IF creds_file
       THEN pc' = "load_token" /\ returned' = returned
       ELSE pc' = "returned" /\ returned' = Return("False")
    /\ UNCHANGED <<creds_file, token_file, creds, service, user_email, issued, calls, rejected>>
    /\ UNCHANGED classifiervars

\* creds = self._load_token()
LoadToken ==
    /\ pc = "load_token"
    /\ creds' = load_token(token_file).creds
    /\ token_file' = load_token(token_file).file
    /\ pc' = "refresh"
    /\ UNCHANGED <<creds_file, service, user_email, returned, issued, calls, rejected>>
    /\ UNCHANGED classifiervars

\* if creds and creds.expired and creds.refresh_token: try: refresh, save;
\* except RefreshError: delete, creds = None.  Any other exception of
\* refresh (the network is down) leaves authenticate.
RefreshToken ==
    /\ pc = "refresh"
    /\ IF \E c \in creds : c.expired /\ c.refresh_token # None
       THEN \E result \in {"refreshed", "RefreshError", "TransportError"} :
              LET c == CHOOSE c \in creds : TRUE
              IN  CASE result = "refreshed" ->
                         /\ creds' = {refresh(c, issued + 1)}
                         /\ token_file' = save_token(token_file, refresh(c, issued + 1))
                         /\ issued' = issued + 1
                         /\ pc' = "login"
                         /\ UNCHANGED <<returned, rejected>>
                    [] result = "RefreshError" ->
                         /\ token_file' = delete_token(token_file)
                         /\ creds' = {}
                         /\ rejected' = rejected \cup {c.id}
                         /\ pc' = "login"
                         /\ UNCHANGED <<returned, issued>>
                    [] result = "TransportError" ->
                         /\ returned' = Raise("TransportError")
                         /\ pc' = "returned"
                         /\ UNCHANGED <<creds, token_file, issued, rejected>>
       ELSE /\ pc' = "login"
            /\ UNCHANGED <<creds, token_file, issued, returned, rejected>>
    /\ UNCHANGED <<creds_file, service, user_email, calls>>
    /\ UNCHANGED classifiervars

\* if not creds or not creds.valid: the browser login, then _save_token.
\* The flow can fail (the sign-in is refused, the port is taken).
BrowserLogin ==
    /\ pc = "login"
    /\ IF creds = {} \/ \E c \in creds : ~c.valid
       THEN \E result \in {"signed_in", "OSError"} :
              IF result = "signed_in"
              THEN /\ creds' = {run_local_server(issued + 1)}
                   /\ token_file' = save_token(token_file, run_local_server(issued + 1))
                   /\ issued' = issued + 1
                   /\ pc' = "build"
                   /\ UNCHANGED returned
              ELSE /\ returned' = Raise("OSError")
                   /\ pc' = "returned"
                   /\ UNCHANGED <<creds, token_file, issued>>
       ELSE /\ pc' = "build"
            /\ UNCHANGED <<creds, token_file, issued, returned>>
    /\ UNCHANGED <<creds_file, service, user_email, calls, rejected>>
    /\ UNCHANGED classifiervars

\* self.service = build("gmail", "v1", credentials=creds)
BuildService ==
    /\ pc = "build"
    /\ service' = {build(c) : c \in creds}
    /\ pc' = "profile"
    /\ UNCHANGED <<creds_file, token_file, creds, user_email, returned, issued, calls, rejected>>
    /\ UNCHANGED classifiervars

\* profile = ...getProfile(userId="me").execute(); self.user_email =
\* profile.get("emailAddress", ""); return True.  The request can fail.
GetProfile ==
    /\ pc = "profile"
    /\ \E result \in {"profile", "HttpError"} :
         IF result = "profile"
         THEN \E profile \in {EmptyDict, [emailAddress |-> "me@gmail.com"]} :
                /\ user_email' = get(profile, "emailAddress", "")
                /\ returned' = Return("True")
         ELSE /\ returned' = Raise("HttpError")
              /\ user_email' = user_email
    /\ pc' = "returned"
    /\ UNCHANGED <<creds_file, token_file, creds, service, issued, calls, rejected>>
    /\ UNCHANGED classifiervars

\* the token file as time passes: unchanged, or its stored access token
\* has expired
Aged(file) ==
    {file} \cup {{[c EXCEPT !.expired = TRUE, !.valid = FALSE]} : c \in file \ {Corrupt}}

\* authenticate is called again on the same assistant; meanwhile the
\* credentials file may have been put in place or removed and the stored
\* token may have expired
CallAgain ==
    /\ pc = "returned"
    /\ calls < MaxCalls
    /\ calls' = calls + 1
    /\ creds_file' \in BOOLEAN
    /\ token_file' \in Aged(token_file)
    /\ creds' = {}
    /\ returned' = Pending
    /\ pc' = "authenticate"
    /\ UNCHANGED <<service, user_email, issued, rejected>>
    /\ UNCHANGED classifiervars

NextAuth ==
    \/ CheckCredentials
    \/ LoadToken
    \/ RefreshToken
    \/ BrowserLogin
    \/ BuildService
    \/ GetProfile
    \/ CallAgain

SpecAuth == InitAuth /\ [][NextAuth]_vars

(***************************************************************************)
(* Claims about categorize_email                                           *)
(***************************************************************************)

\* the configured order of the rule table
ConfiguredOrder == <<"work", "personal", "newsletter", "promotion", "important">>

\* the rules configured under a category name
RulesOf(name) == CATEGORIES[CHOOSE i \in 1..Len(CATEGORIES) : CATEGORIES[i].name = name].rules

\* which checks of a category hit a record with full text ft, lowercased
\* sender sd and lowercased subject sj:
\*   kw  - a keyword is a substring of full_text
\*   dom - a from_domains entry is a substring of the lowercased sender
\*   pat - a subject pattern searches the lowercased subject
Checks(rules, ft, sd, sj) ==
    [kw  |-> /\ "keywords" \in DOMAIN rules
             /\ \E i \in 1..Len(rules.keywords) : contains(ft, rules.keywords[i]),
     dom |-> /\ "from_domains" \in DOMAIN rules
             /\ \E i \in 1..Len(rules.from_domains) : contains(sd, rules.from_domains[i]),
     pat |-> /\ "subject_patterns" \in DOMAIN rules
             /\ \E i \in 1..Len(rules.subject_patterns) : re_search(rules.subject_patterns[i], sj)]

\* the checks of every category, by position in the configured order
CheckTable(e) ==
    LET ft == FullText(e)
        sd == lower(get(e, "from", ""))
        sj == lower(get(e, "subject", ""))
    IN  [i \in 1..Len(ConfiguredOrder) |-> Checks(RulesOf(ConfiguredOrder[i]), ft, sd, sj)]

\* the record satisfies the rules of the category at position i
Satisfies(T, i) == T[i].kw \/ T[i].dom \/ T[i].pat

\* positions in the configured order of the categories the record satisfies
Satisfied(T) == {i \in 1..Len(ConfiguredOrder) : Satisfies(T, i)}

\* C1: a record that satisfies the rules of two or more categories is given
\* the one that comes earliest in the configured order (work, personal,
\* newsletter, promotion, important), whatever kind of check each matched by.
C1_TieByOrder ==
    pc = "done" =>
        LET S == Satisfied(CheckTable(email))
        IN  Cardinality(S) >= 2 =>
                category = Return(ConfiguredOrder[CHOOSE i \in S : \A j \in S : i <= j])

\* a tie between an earlier category matched by its domain list only, a later
\* one matched by keyword and another matched by subject pattern, settled
\* for the earliest
C1_Witness ==
    /\ pc = "done"
    /\ category = Return("work")
    /\ LET T == CheckTable(email)
       IN  T[1].dom /\ ~T[1].kw /\ T[2].kw /\ T[4].pat

C3_MatchIffCheckHits ==
    pc = "done" =>
        LET T == CheckTable(email)
        IN  \A i \in 1..Len(ConfiguredOrder) :
                LET name == ConfiguredOrder[i]
                    first == \A j \in 1..(i - 1) : ~Satisfies(T, j)
                IN  /\ category.value = name => Satisfies(T, i)
                    /\ (T[i].kw /\ first) => category = Return(name)
                    /\ (Satisfies(T, i) /\ first) => category = Return(name)
                    /\ ({"from_domains", "subject_patterns"} \cap DOMAIN RulesOf(name) = {} /\ ~T[i].kw)
                           => category.value # name

\* a category with a pattern list matched by keyword alone (its patterns do
\* not match), while the keywords-only category earlier in the order is
\* skipped
C3_Witness ==
    /\ pc = "done"
    /\ category = Return("promotion")
    /\ LET T == CheckTable(email)
       IN  T[4].kw /\ ~T[4].pat /\ ~Satisfies(T, 1) /\ ~Satisfies(T, 2) /\ ~Satisfies(T, 3)

\* a keyword of the rules occurs in the (lowercased) text t
KeywordIn(rules, t) ==
    \E i \in 1..Len(get(rules, "keywords", <<>>)) : contains(t, rules.keywords[i])

\* position of a returned category in the configured order, one past the end
\* for "uncategorized"
PositionOf(name) ==
    IF \E i \in 1..Len(ConfiguredOrder) : ConfiguredOrder[i] = name
    THEN CHOOSE i \in 1..Len(ConfiguredOrder) : ConfiguredOrder[i] = name
    ELSE Len(ConfiguredOrder) + 1

\* C12: with a non-empty body the snippet is not searched: the category
\* returned is justified by a check on subject, sender and body alone, so a
\* keyword that occurs only in the snippet never causes a match.  With an
\* empty (or absent) body the snippet is searched: a keyword that occurs in
\* the snippet, the subject or the sender makes its category match (it is
\* returned unless an earlier category matches).
C12_BodyThenSnippet ==
    pc = "done" =>
        LET sj  == lower(get(email, "subject", ""))
            sd  == lower(get(email, "from", ""))
            bd  == lower(get(email, "body", ""))
            sn  == lower(get(email, "snippet", ""))
            pos == PositionOf(category.value)
        IN  /\ category.exc = ""
            /\ (bd # "" /\ pos <= Len(ConfiguredOrder)) =>
                   LET c == Checks(RulesOf(ConfiguredOrder[pos]), sj \o " " \o sd \o " " \o bd, sd, sj)
                   IN  c.kw \/ c.dom \/ c.pat
            /\ bd = "" =>
                   \A i \in 1..Len(ConfiguredOrder) :
                       LET rules == RulesOf(ConfiguredOrder[i])
                       IN  (KeywordIn(rules, sn) \/ KeywordIn(rules, sj) \/ KeywordIn(rules, sd))
                               => pos <= i

\* a record whose snippet alone holds a keyword and whose body is non-empty
\* is left uncategorized
C12_Witness ==
    /\ pc = "done"
    /\ get(email, "body", "") # ""
    /\ KeywordIn(RulesOf("important"), lower(get(email, "snippet", "")))
    /\ ~KeywordIn(RulesOf("important"), lower(get(email, "body", "")))
    /\ category = Return("uncategorized")

\* a record with an empty body whose snippet alone holds a keyword is given
\* the category of that keyword
C12_WitnessFallback ==
    /\ pc = "done"
    /\ get(email, "body", "") = ""
    /\ KeywordIn(RulesOf("important"), lower(get(email, "snippet", "")))
    /\ ~KeywordIn(RulesOf("important"), lower(get(email, "subject", "")) \o " " \o lower(get(email, "from", "")))
    /\ category = Return("important")

\* some subject pattern of the rule table does not compile
Malformed(items) ==
    \E i \in 1..Len(items) :
        LET ps == get(items[i].rules, "subject_patterns", <<>>)
        IN  \E j \in 1..Len(ps) : re_error(ps[j])

\* C11: a rule table that contains a regular expression that does not
\* compile is reported as a configuration error when the rule set is
\* constructed, and no classify call ever fails because of a rule's pattern.
C11_ConfigErrorAtConstruction ==
    /\ (pc \in {"start", "done"} /\ Malformed(rule_set)) => config.exc = "re.error"
    /\ pc = "done" => category.exc = ""

\* with the code as it is: construction never reports anything, and a
\* classify call fails only on a table with a malformed pattern
C11_DetectedOnlyAtClassify ==
    /\ pc \in {"start", "done"} => config.exc = ""
    /\ (pc = "done" /\ category.exc # "") => (category.exc = "re.error" /\ Malformed(rule_set))

(***************************************************************************)
(* Claims about _extract_body                                              *)
(***************************************************************************)

\* the node has a children collection
HasParts(p) == "parts" \in DOMAIN p

\* the node carries non-empty encoded data
HasData(p) == "body" \in DOMAIN p /\ "data" \in DOMAIN p.body /\ p.body.data # ""

\* the node is of the given type and carries non-empty encoded data
IsText(p, type) == "mimeType" \in DOMAIN p /\ p.mimeType = type /\ HasData(p)

\* positions of the direct children of p that are text/plain with data
PlainChildren(p) == {k \in 1..Len(p.parts) : IsText(p.parts[k], "text/plain")}

Min(S) == CHOOSE i \in S : \A j \in S : i <= j

\* the child at position k supplies content in the second pass: it has
\* children and its own extraction is non-empty, or it is text/html with data
Supplies(p, k) ==
    \/ HasParts(p.parts[k]) /\ extract_body(p.parts[k]) # <<>>
    \/ IsText(p.parts[k], "text/html")

\* C4: for a node with children of which at least one direct child is
\* text/plain with non-empty data, the result is the decoded data of the
\* first such child, whatever text/html or nested multipart children come
\* before it.
C4_DirectPlainFirst ==
    (pc = "done" /\ HasParts(payload) /\ PlainChildren(payload) # {}) =>
        body = Return(decode(payload.parts[Min(PlainChildren(payload))].body.data))

\* the first direct text/plain child comes after a child that would supply
\* content in the second pass, and its own text is returned
C4_Witness ==
    /\ pc = "done" /\ HasParts(payload) /\ PlainChildren(payload) # {}
    /\ \E j \in 1..(Min(PlainChildren(payload)) - 1) : Supplies(payload, j)
    /\ body.value # <<>>
    /\ body = Return(decode(payload.parts[Min(PlainChildren(payload))].body.data))

\* positions of the direct children of p that have children of which one is
\* text/plain with data
NestedWithPlain(p) ==
    {k \in 1..Len(p.parts) : HasParts(p.parts[k]) /\ PlainChildren(p.parts[k]) # {}}

\* the decoded text of the first plain-text grandchild below child k
GrandchildText(p, k) == decode(p.parts[k].parts[Min(PlainChildren(p.parts[k]))].body.data)

\* C5 as stated: a node without a direct plain-text child but with a nested
\* multipart child that holds a plain-text grandchild (with data) yields that
\* grandchild's decoded text, for every arrangement of the other children.
C5_Original ==
    (pc = "done" /\ HasParts(payload) /\ PlainChildren(payload) = {}
       /\ NestedWithPlain(payload) # {}) =>
        \E k \in NestedWithPlain(payload) : body = Return(GrandchildText(payload, k))

\* C5 as amended: a node without a direct plain-text child yields the text
\* of the first child, in order, that supplies content in the second pass.
\* So the decoded text of a plain-text grandchild (with data) is returned
\* when it is non-empty and no child placed before its parent supplies
\* content; a text/html child with data placed before every supplying
\* nested child is returned instead.
C5_NestedPlainInOrder ==
    (pc = "done" /\ HasParts(payload) /\ PlainChildren(payload) = {}) =>
        \A k \in 1..Len(payload.parts) :
            (\A j \in 1..(k - 1) : ~Supplies(payload, j)) =>
                /\ (k \in NestedWithPlain(payload) /\ GrandchildText(payload, k) # <<>>)
                       => body = Return(GrandchildText(payload, k))
                /\ (IsText(payload.parts[k], "text/html")
                      /\ ~(HasParts(payload.parts[k]) /\ extract_body(payload.parts[k]) # <<>>))
                       => body = Return(decode(payload.parts[k].body.data))

\* the nested multipart child comes second, after a child that supplies
\* nothing, and the grandchild's text is returned
C5_Witness ==
    /\ pc = "done" /\ HasParts(payload) /\ PlainChildren(payload) = {}
    /\ 2 \in NestedWithPlain(payload)
    /\ ~Supplies(payload, 1)
    /\ GrandchildText(payload, 2) # <<>>
    /\ body = Return(GrandchildText(payload, 2))

\* C6: for a node with children, when neither the plain-text pass nor the
\* recursion/HTML pass finds content the result is the empty string; the
\* node's own body data is returned only when it has no children collection.
C6_EmptyWhenNothingFound ==
    (pc = "done" /\ HasParts(payload) /\ PlainChildren(payload) = {}
       /\ \A k \in 1..Len(payload.parts) : ~Supplies(payload, k)) =>
        body = Return(<<>>)

(***************************************************************************)
(* Claims about get_attachments                                            *)
(***************************************************************************)

\* the node has a non-empty filename
IsNamed(p) == "filename" \in DOMAIN p /\ p.filename # ""

\* the descriptor of a named node: attachmentId null and size 0 when absent
DescriptorOf(p) ==
    [filename     |-> p.filename,
     mimeType     |-> IF "mimeType" \in DOMAIN p THEN p.mimeType ELSE "",
     attachmentId |-> IF "body" \in DOMAIN p /\ "attachmentId" \in DOMAIN p.body
                      THEN p.body.attachmentId ELSE None,
     size         |-> IF "body" \in DOMAIN p /\ "size" \in DOMAIN p.body
                      THEN p.body.size ELSE 0]

RECURSIVE PreOrder(_, _)
\* the descriptors of the named nodes of parts (from index k on) in
\* depth-first pre-order: a node, then its children, then its next sibling
PreOrder(parts, k) ==
    IF k > Len(parts) THEN <<>>
    ELSE (IF IsNamed(parts[k]) THEN <<DescriptorOf(parts[k])>> ELSE <<>>)
         \o (IF "parts" \in DOMAIN parts[k] THEN PreOrder(parts[k].parts, 1) ELSE <<>>)
         \o PreOrder(parts, k + 1)

\* the parts of the root node of a fetched message, <<>> when it has none
RootParts(response) ==
    IF "payload" \in DOMAIN response.value /\ "parts" \in DOMAIN response.value.payload
    THEN response.value.payload.parts
    ELSE <<>>

\* C7: get_attachments returns one descriptor for every non-root node with a
\* non-empty filename, in depth-first pre-order, without deduplication or
\* filtering; a named container is emitted and descended into; the root is
\* never emitted.
C7_PreOrderListing ==
    (pc = "done" /\ msg.exc = "") => attachments = Return(PreOrder(RootParts(msg), 1))

\* C8: no tree in which body objects, attachment ids or sizes are absent
\* makes attachment enumeration raise; it returns a sequence whose
\* descriptors carry attachmentId null and size 0 where those are absent.
C8_NeverRaises ==
    pc = "done" =>
        /\ attachments.exc = ""
        /\ msg.exc = "" => attachments.value = PreOrder(RootParts(msg), 1)

\* every named node of the tree has a body object
RECURSIVE NamedHaveBody(_, _)
NamedHaveBody(parts, k) ==
    \/ k > Len(parts)
    \/ /\ IsNamed(parts[k]) => "body" \in DOMAIN parts[k]
       /\ "parts" \in DOMAIN parts[k] => NamedHaveBody(parts[k].parts, 1)
       /\ NamedHaveBody(parts, k + 1)

\* the listing of C7 on the trees in which every named node has a body
\* object (where _scan cannot raise)
C7_OnTreesWithBodies ==
    (pc = "done" /\ msg.exc = "" /\ NamedHaveBody(RootParts(msg), 1)) =>
        attachments = Return(PreOrder(RootParts(msg), 1))

(***************************************************************************)
(* Claims about send_templated_email                                       *)
(***************************************************************************)

\* the lines of the rendered text
RenderedLines == splitlines(strip(rendered), 1, 1)

\* positions of the lines that, leading and trailing whitespace ignored,
\* begin with a case-insensitive "subject:"
SubjectLines(lines) == {k \in 1..Len(lines) : startswith(lower(strip(lines[k])), "subject:")}

\* everything after the "subject:" prefix of a line, trimmed
AfterPrefix(line) == strip(SubSeq(strip(line), Len("subject:") + 1, Len(strip(line))))

\* C9: the subject is supplied by the first line that begins with a
\* case-insensitive "subject:" prefix (leading and trailing whitespace of
\* the line ignored) and is everything after the prefix, trimmed; a later
\* such line before the body starts does not replace it.
C9_FirstSubjectLine ==
    pc = "done" =>
        LET lines == RenderedLines
        IN  SubjectLines(lines) # {} =>
                sent.value.subject = AfterPrefix(lines[Min(SubjectLines(lines))])

\* positions of the lines that begin with "subject:" in any letter case
PrefixLines(lines) == {k \in 1..Len(lines) : startswith(lower(lines[k]), "subject:")}

\* positions of the blank lines after position s
BlankAfter(lines, s) == {k \in (s + 1)..Len(lines) : strip(lines[k]) = ""}

\* C10: the body starts at the first blank line after the subject line: it
\* is the lines after that blank line joined with newline and trimmed, also
\* when the subject text after the prefix is empty and when later body lines
\* are blank or begin with "subject:"; blank lines before the subject line
\* never start the body.
C10_BodyAfterFirstBlank ==
    pc = "done" =>
        LET lines == RenderedLines
        IN  (PrefixLines(lines) # {} /\ BlankAfter(lines, Min(PrefixLines(lines))) # {}) =>
                sent.value.body =
                    strip(join("\n", SubSeq(lines, Min(BlankAfter(lines, Min(PrefixLines(lines)))) + 1,
                                            Len(lines))))

\* C10 on the texts whose subject lines before the first blank line all
\* carry a non-empty subject
C10_WhenSubjectNonEmpty ==
    pc = "done" =>
        LET lines == RenderedLines
            s == Min(PrefixLines(lines))
            b == Min(BlankAfter(lines, s))
        IN  (PrefixLines(lines) # {} /\ BlankAfter(lines, s) # {}
               /\ \A k \in PrefixLines(lines) : k < b => AfterPrefix(lines[k]) # "") =>
                sent.value.body = strip(join("\n", SubSeq(lines, b + 1, Len(lines))))

(***************************************************************************)
(* Claims about authenticate                                               *)
(***************************************************************************)

\* authenticate is between its _load_token call and its return
PastLoad == pc \in {"refresh", "login", "build", "profile"}

\* authenticate has returned True: the token file exists and holds the
\* credentials the service was built with
SavedMatchesService ==
    (pc = "returned" /\ returned = Return("True")) =>
        /\ token_file # {}
        /\ service = {build(c) : c \in token_file}

\* a token file that cannot be unpickled is gone once _load_token has run,
\* and no token whose refresh was refused is in the token file
BadTokenDeleted ==
    /\ (PastLoad \/ (pc = "returned" /\ returned # Return("False"))) => Corrupt \notin token_file
    /\ \A c \in token_file \ {Corrupt} : c.id \notin rejected

\* the service is only ever built from credentials that were not refused
\* and that were read from, or written to, the token file
BuiltFromGoodToken ==
    service' # service =>
        /\ service' # {}
        /\ \A s \in service' : s.credentials.id \notin rejected /\ s.credentials \in token_file

\* without the credentials file authenticate returns False and touches
\* neither the token file nor self.service
MissingCredentials ==
    /\ (pc = "authenticate" /\ ~creds_file) =>
           /\ returned' = Return("False")
           /\ pc' = "returned"
           /\ UNCHANGED <<token_file, service>>
    /\ (pc' = "returned" /\ returned' = Return("False")) => (pc = "authenticate" /\ ~creds_file)

\* C13: the token lifecycle of authenticate.  Whenever authenticate returns
\* True the token file exists and stores exactly the credentials the service
\* was built with; a stored token that cannot be read, or whose refresh
\* raised RefreshError, is deleted and is never used to build the service;
\* when the credentials file is missing authenticate returns False and
\* leaves the token file and self.service unchanged.
C13_TokenLifecycle ==
    /\ [](SavedMatchesService /\ BadTokenDeleted)
    /\ [][BuiltFromGoodToken /\ MissingCredentials]_vars

\* a second call that found its stored token expired, had the refresh
\* refused, signed in through the browser and returned True, the first call
\* having built a service from the token that was later refused
C13_Witness ==
    /\ pc = "returned"
    /\ returned = Return("True")
    /\ calls = 2
    /\ rejected = {0}
    /\ \E c \in token_file : c.id = issued /\ service = {build(c)}

\* a call that returned True on a refreshed token
C13_WitnessRefreshed ==
    /\ pc = "returned"
    /\ returned = Return("True")
    /\ rejected = {}
    /\ \E c \in token_file : c.id = 1 /\ c.refresh_token = RefreshTokenValue /\ service = {build(c)}
    /\ calls = 1

\* a call without the credentials file, made on an assistant that holds a
\* service and a token file
C13_WitnessMissing ==
    /\ pc = "returned"
    /\ returned = Return("False")
    /\ service # {}
    /\ token_file # {}

====
